---------------------------- MODULE Spec2Model ----------------------------
(***************************************************************************)
(* A model of incremental: the Version value (construction, repr, public,  *)
(* comparison; src/src/incremental/__init__.py) and the version-bump tool  *)
(* (src/src/incremental/update.py).                                        *)
(*                                                                         *)
(* Encodings.  An optional field (release_candidate, post, dev) is a       *)
(* sequence: None is <<>> and the integer n is <<n>>.  The major "NEXT" is *)
(* the integer NEXT (concrete majors are >= 0).  Text (a file's bytes, a   *)
(* repr, a public string) is a sequence of string tokens; a replace is a   *)
(* replacement of sub-sequences.  Strings are Python 2 str, the type the   *)
(* tool's own mixing of str and bytes (update.py:155, 169) relies on.      *)
(***************************************************************************)
EXTENDS Integers, Sequences, FiniteSets, TLC

VARIABLES
    va,     \* left operand of the comparison under test
    vb,     \* right operand of the comparison under test
    out,    \* results of the relational operators applied to (va, vb)
    fs,     \* the file system: the candidate package roots and their entries
    res,    \* what the last call of _run did
    runs    \* number of calls of _run so far

vars == <<va, vb, out, fs, res, runs>>

-----------------------------------------------------------------------------
(* Bounds *)

MaxNum == 1

-----------------------------------------------------------------------------
(* Python values *)

None == <<>>

Some(n) == <<n>>

NEXT == -1

\* Python truthiness of an optional integer: None and 0 are false.
Truthy(x) == x # None /\ x[1] # 0

\* Python's `x or 0`.
OrZero(x) == IF Truthy(x) THEN x[1] ELSE 0

\* str.lower() on the package names of the model.
lower(s) ==
    CASE s = "IncTestPkg" -> "inctestpkg"
      [] s = "OtherPkg" -> "otherpkg"
      [] OTHER -> s

-----------------------------------------------------------------------------
(* Version *)

NoVersion ==
    [package |-> "", major |-> 0, minor |-> 0, micro |-> 0,
     release_candidate |-> None, post |-> None, dev |-> None]

\* Version.__init__ with the NEXT test leaving dev out.
Version_init_NEXT_with_dev(package, major, minor, micro, release_candidate, prerelease, post, dev) ==
    LET rc == IF Truthy(prerelease) /\ ~Truthy(release_candidate)
              THEN prerelease ELSE release_candidate
    IN  IF Truthy(release_candidate) /\ Truthy(prerelease)
        THEN [exc |-> "ValueError", v |-> NoVersion]
        ELSE IF major = NEXT
                /\ (minor # 0 \/ micro # 0 \/ Truthy(rc) \/ Truthy(post))
        THEN [exc |-> "ValueError", v |-> NoVersion]
        ELSE [exc |-> "none",
              v |-> [package |-> package, major |-> major, minor |-> minor,
                     micro |-> micro, release_candidate |-> rc,
                     post |-> post, dev |-> dev]]

\* Version.__init__: the constructed value, or the error it raises.
Version_init(package, major, minor, micro, release_candidate, prerelease, post, dev) ==
    LET rc == IF Truthy(prerelease) /\ ~Truthy(release_candidate)
              THEN prerelease ELSE release_candidate
    IN  IF Truthy(release_candidate) /\ Truthy(prerelease)
        THEN [exc |-> "ValueError", v |-> NoVersion]
        ELSE IF major = NEXT
                /\ (minor # 0 \/ micro # 0 \/ Truthy(rc) \/ Truthy(post) \/ Truthy(dev))
        THEN [exc |-> "ValueError", v |-> NoVersion]
        ELSE [exc |-> "none",
              v |-> [package |-> package, major |-> major, minor |-> minor,
                     micro |-> micro, release_candidate |-> rc,
                     post |-> post, dev |-> dev]]

\* Version(package, major, minor, micro, release_candidate), the positional call.
Version(package, major, minor, micro, release_candidate) ==
    Version_init(package, major, minor, micro, release_candidate, None, None, None)

\* The deprecated read alias of release_candidate.
prerelease(v) == v.release_candidate

-----------------------------------------------------------------------------
(* Comparison *)

\* The singleton _inf, and an ordinary integer, as tuple elements.
inf == [inf |-> TRUE, n |-> 0]

Int_(n) == [inf |-> FALSE, n |-> n]

\* _inf.__cmp__ without the identity test.
inf_cmp_no_identity(other) == 1

\* _inf.__cmp__(other)
inf_cmp(other) == IF other.inf THEN 0 ELSE 1

\* cmp of two tuple elements: _inf.__cmp__ when the left one is _inf, its
\* reflection when only the right one is, integer comparison otherwise.
elem_cmp(x, y) ==
    IF x.inf THEN inf_cmp(y)
    ELSE IF y.inf THEN 0 - inf_cmp(x)
    ELSE IF x.n < y.n THEN -1 ELSE IF x.n = y.n THEN 0 ELSE 1

\* _cmp on two tuples of equal length: the first differing position decides.
RECURSIVE tuple_cmp(_, _, _)
tuple_cmp(s, t, i) ==
    IF i > Len(s) THEN 0
    ELSE IF elem_cmp(s[i], t[i]) # 0 THEN elem_cmp(s[i], t[i])
    ELSE tuple_cmp(s, t, i + 1)

cmp(s, t) == tuple_cmp(s, t, 1)

\* The 6-tuple with the major taken as it is, NEXT included.
cmp_key_major_as_given(v) ==
    << Int_(v.major),
       Int_(v.minor),
       Int_(v.micro),
       IF v.release_candidate = None THEN inf ELSE Int_(v.release_candidate[1]),
       IF v.post = None THEN Int_(-1) ELSE Int_(v.post[1]),
       IF v.dev = None THEN inf ELSE Int_(v.dev[1]) >>

\* The 6-tuple with a missing release candidate taken as -1, as a missing
\* post is.
cmp_key_candidate_as_post(v) ==
    << IF v.major = NEXT THEN inf ELSE Int_(v.major),
       Int_(v.minor),
       Int_(v.micro),
       IF v.release_candidate = None THEN Int_(-1) ELSE Int_(v.release_candidate[1]),
       IF v.post = None THEN Int_(-1) ELSE Int_(v.post[1]),
       IF v.dev = None THEN inf ELSE Int_(v.dev[1]) >>

\* The 6-tuple with a missing dev taken as -1, as a missing post is.
cmp_key_dev_as_post(v) ==
    << IF v.major = NEXT THEN inf ELSE Int_(v.major),
       Int_(v.minor),
       Int_(v.micro),
       IF v.release_candidate = None THEN inf ELSE Int_(v.release_candidate[1]),
       IF v.post = None THEN Int_(-1) ELSE Int_(v.post[1]),
       IF v.dev = None THEN Int_(-1) ELSE Int_(v.dev[1]) >>

\* The 6-tuple with a missing post taken as _inf, as a missing dev is.
cmp_key_post_as_inf(v) ==
    << IF v.major = NEXT THEN inf ELSE Int_(v.major),
       Int_(v.minor),
       Int_(v.micro),
       IF v.release_candidate = None THEN inf ELSE Int_(v.release_candidate[1]),
       IF v.post = None THEN inf ELSE Int_(v.post[1]),
       IF v.dev = None THEN inf ELSE Int_(v.dev[1]) >>

\* The 6-tuple Version.__cmp__ builds for one side.
cmp_key(v) ==
    << IF v.major = NEXT THEN inf ELSE Int_(v.major),
       Int_(v.minor),
       Int_(v.micro),
       IF v.release_candidate = None THEN inf ELSE Int_(v.release_candidate[1]),
       IF v.post = None THEN Int_(-1) ELSE Int_(v.post[1]),
       IF v.dev = None THEN inf ELSE Int_(v.dev[1]) >>

\* Version.__cmp__ comparing the package names as written.
Version_cmp_case_sensitive(self, other) ==
    IF self.package # other.package
    THEN [exc |-> "IncomparableVersions", c |-> 0]
    ELSE [exc |-> "none", c |-> cmp(cmp_key(self), cmp_key(other))]

\* Version.__cmp__ between two Versions: -1, 0, 1, or IncomparableVersions.
Version_cmp(self, other) ==
    IF lower(self.package) # lower(other.package)
    THEN [exc |-> "IncomparableVersions", c |-> 0]
    ELSE [exc |-> "none", c |-> cmp(cmp_key(self), cmp_key(other))]

\* The operators _comparable derives from __cmp__ (on Python 2 the
\* interpreter derives the same from __cmp__): "True", "False" or the error.
Bool(b) == IF b THEN "True" ELSE "False"

Version_lt(a, b) ==
    LET c == Version_cmp(a, b) IN IF c.exc # "none" THEN c.exc ELSE Bool(c.c < 0)

Version_le(a, b) ==
    LET c == Version_cmp(a, b) IN IF c.exc # "none" THEN c.exc ELSE Bool(c.c <= 0)

Version_eq(a, b) ==
    LET c == Version_cmp(a, b) IN IF c.exc # "none" THEN c.exc ELSE Bool(c.c = 0)

Version_ne(a, b) ==
    LET c == Version_cmp(a, b) IN IF c.exc # "none" THEN c.exc ELSE Bool(c.c # 0)

Version_gt(a, b) ==
    LET c == Version_cmp(a, b) IN IF c.exc # "none" THEN c.exc ELSE Bool(c.c > 0)

Version_ge(a, b) ==
    LET c == Version_cmp(a, b) IN IF c.exc # "none" THEN c.exc ELSE Bool(c.c >= 0)

-----------------------------------------------------------------------------
(* Text *)

\* '%d' % n, and int(s) on the decimal numeral s.
Str(n) == ToString(n)

RECURSIVE IntFrom(_, _)
IntFrom(s, n) == IF Str(n) = s THEN n ELSE IntFrom(s, n + 1)

int(s) == IntFrom(s, 0)

\* '%r' of a str: the text in single quotes.
repr_str(s) == <<"'", s, "'">>

\* '%r' of a major: an integer, or the str "NEXT".
repr_major(major) == IF major = NEXT THEN repr_str("NEXT") ELSE <<Str(major)>>

\* Version.__repr__ without the post number.
Version_repr_without_post(v) ==
    <<"Version(">> \o repr_str(v.package) \o <<", ">> \o repr_major(v.major)
    \o <<", ", Str(v.minor), ", ", Str(v.micro)>>
    \o (IF v.release_candidate = None THEN <<>>
        ELSE <<", release_candidate=", Str(v.release_candidate[1])>>)
    \o (IF v.dev = None THEN <<>> ELSE <<", dev=", Str(v.dev[1])>>)
    \o <<")">>

\* Version.__repr__
Version_repr(v) ==
    <<"Version(">> \o repr_str(v.package) \o <<", ">> \o repr_major(v.major)
    \o <<", ", Str(v.minor), ", ", Str(v.micro)>>
    \o (IF v.release_candidate = None THEN <<>>
        ELSE <<", release_candidate=", Str(v.release_candidate[1])>>)
    \o (IF v.post = None THEN <<>> ELSE <<", post=", Str(v.post[1])>>)
    \o (IF v.dev = None THEN <<>> ELSE <<", dev=", Str(v.dev[1])>>)
    \o <<")">>

\* Version.public
public(v) ==
    IF v.major = NEXT THEN <<"NEXT">>
    ELSE <<Str(v.major), ".", Str(v.minor), ".", Str(v.micro)>>
         \o (IF v.release_candidate = None THEN <<>>
             ELSE <<"rc", Str(v.release_candidate[1])>>)
         \o (IF v.post = None THEN <<>> ELSE <<"post", Str(v.post[1])>>)
         \o (IF v.dev = None THEN <<>> ELSE <<"dev", Str(v.dev[1])>>)

\* text.split("#")[0]: the text before the first "#".
RECURSIVE split_hash_0(_)
split_hash_0(text) ==
    IF text = <<>> \/ Head(text) = "#" THEN <<>>
    ELSE <<Head(text)>> \o split_hash_0(Tail(text))

\* str.replace(old, new): every non-overlapping occurrence, left to right.
RECURSIVE replace(_, _, _)
replace(text, old, new) ==
    IF Len(text) < Len(old) THEN text
    ELSE IF SubSeq(text, 1, Len(old)) = old
    THEN new \o replace(SubSeq(text, Len(old) + 1, Len(text)), old, new)
    ELSE <<Head(text)>> \o replace(Tail(text), old, new)

\* text.replace("'", '"')
double_quoted(text) == replace(text, <<"'">>, <<"\"">>)

\* Number of non-overlapping occurrences of old in text.
RECURSIVE count(_, _)
count(text, old) ==
    IF Len(text) < Len(old) THEN 0
    ELSE IF SubSeq(text, 1, Len(old)) = old
    THEN 1 + count(SubSeq(text, Len(old) + 1, Len(text)), old)
    ELSE count(Tail(text), old)

\* _VERSIONPY_TEMPLATE % (package, version_repr); the two backquotes of the
\* header are written as (bq).
VERSIONPY_TEMPLATE(package, version_repr) ==
    <<"# This file is auto-generated! Do not edit!\n# Use (bq)python -m incremental.update ",
      package,
      "(bq) to change this file.\n\nfrom incremental import Version\n\n__version__ = ">>
    \o version_repr
    \o <<"\n__all__ = [\"__version__\"]\n">>

-----------------------------------------------------------------------------
(* The Versions the model constructs *)

Nums == 0 .. MaxNum

Opts == {None} \cup {Some(n) : n \in Nums}

PackageNames == {"inctestpkg", "IncTestPkg", "otherpkg"}

\* Every value Version.__init__ accepts over the model's field values.
VersionsOf(package) ==
    { r.v : r \in { x \in { Version_init(package, major, minor, micro, rc, None, post, dev) :
                              major \in Nums \cup {NEXT}, minor \in Nums, micro \in Nums,
                              rc \in Opts, post \in Opts, dev \in Opts } :
                    x.exc = "none" } }

\* The Versions of the package the tool is run on in the tests.
Versions == VersionsOf("inctestpkg")

SamePackage(a, b) == lower(a.package) = lower(b.package)


-----------------------------------------------------------------------------
(* The file system *)

\* The two places _findPath looks in, <cwd>/src/<name> and <cwd>/<name>.
Places == {"src", "cur"}

\* The name of the package directory on disk.
DirName == "inctestpkg"

\* The entries of a package root: the version file, a module, a
\* sub-directory and a module inside it.
FileNames == <<"_version.py", "__init__.py", "sub", "sub/mod.py">>

Absent == [kind |-> "none", content |-> <<>>]

Directory == [kind |-> "dir", content |-> <<>>]

File(content) == [kind |-> "file", content |-> content]

NoPath == [place |-> "", name |-> ""]

\* FilePath.child: the path of the directory `name` at `place`.
Path(place, name) == [place |-> place, name |-> name]

\* FilePath.isdir
isdir(fsys, path) == path.place \in Places /\ path.name = DirName /\ fsys[path.place].isdir

\* FilePath.isfile of a child of the directory at path
isfile(fsys, path, name) == isdir(fsys, path) /\ fsys[path.place].entries[name].kind = "file"

\* FilePath.getContent of a child of the directory at path
getContent(fsys, path, name) == fsys[path.place].entries[name].content

-----------------------------------------------------------------------------
(* update.py *)

YEAR_START == 2000

Raise(exc, msg) == [exc |-> exc, msg |-> msg]

NoError == Raise("none", "")

\* _findPath looking for the package name in the case it was given in.
findPath_name_as_given(fsys, package) ==
    LET src_dir == Path("src", package)
        current_dir == Path("cur", package)
    IN  IF isdir(fsys, src_dir)
        THEN [err |-> NoError, path |-> src_dir, io |-> <<"isdir src">>]
        ELSE IF isdir(fsys, current_dir)
        THEN [err |-> NoError, path |-> current_dir, io |-> <<"isdir src", "isdir cur">>]
        ELSE [err |-> Raise("ValueError", "Can't find under ./src or ./"),
              path |-> NoPath, io |-> <<"isdir src", "isdir cur">>]

\* _findPath(path, package): the package root, or the not-found ValueError.
findPath(fsys, package) ==
    LET src_dir == Path("src", lower(package))
        current_dir == Path("cur", lower(package))
    IN  IF isdir(fsys, src_dir)
        THEN [err |-> NoError, path |-> src_dir, io |-> <<"isdir src">>]
        ELSE IF isdir(fsys, current_dir)
        THEN [err |-> NoError, path |-> current_dir, io |-> <<"isdir src", "isdir cur">>]
        ELSE [err |-> Raise("ValueError", "Can't find under ./src or ./"),
              path |-> NoPath, io |-> <<"isdir src", "isdir cur">>]

\* Position of the first token tok in text, 0 if there is none.
RECURSIVE index_from(_, _, _)
index_from(text, tok, i) ==
    IF i > Len(text) THEN 0
    ELSE IF text[i] = tok THEN i ELSE index_from(text, tok, i + 1)

\* exec() of the text of a _version.py and the lookup of __version__: the
\* Version call written in the text is evaluated by Version.__init__.
exec_version(text) ==
    LET i == index_from(text, "Version(", 1)
    IN  IF i = 0 THEN [err |-> Raise("KeyError", "__version__"), v |-> NoVersion]
        ELSE
        LET package == text[i + 2]
            isNEXT == text[i + 5] = "'"
            major == IF isNEXT THEN NEXT ELSE int(text[i + 5])
            j == IF isNEXT THEN i + 8 ELSE i + 6
            minor == int(text[j + 1])
            micro == int(text[j + 3])
            k1 == j + 4
            hasRc == text[k1] = ", release_candidate="
            k2 == IF hasRc THEN k1 + 2 ELSE k1
            hasPost == text[k2] = ", post="
            k3 == IF hasPost THEN k2 + 2 ELSE k2
            hasDev == text[k3] = ", dev="
            made == Version_init(package, major, minor, micro,
                                 IF hasRc THEN Some(int(text[k1 + 1])) ELSE None,
                                 None,
                                 IF hasPost THEN Some(int(text[k2 + 1])) ELSE None,
                                 IF hasDev THEN Some(int(text[k3 + 1])) ELSE None)
        IN  IF made.exc = "none" THEN [err |-> NoError, v |-> made.v]
            ELSE [err |-> Raise(made.exc, "Version.__init__"), v |-> NoVersion]

\* _existing_version(path)
existing_version(fsys, path) ==
    IF ~isfile(fsys, path, "_version.py")
    THEN [err |-> Raise("IOError", "_version.py"), v |-> NoVersion]
    ELSE exec_version(getContent(fsys, path, "_version.py"))

\* A segment of newversion.split('.'): a prefix of letters and a numeral.
Seg(prefix, digits) == <<prefix, digits>>

\* The while loop over the segments after the third (update.py:82-90).
RECURSIVE apply_segments(_, _)
apply_segments(v, segments) ==
    IF segments = <<>> THEN v
    ELSE LET segment == Head(segments)
             n == Some(int(segment[2]))
         IN  apply_segments(
                 IF segment[1] = "dev" THEN [v EXCEPT !.dev = n]
                 ELSE IF segment[1] = "rc" THEN [v EXCEPT !.release_candidate = n]
                 ELSE IF segment[1] = "pre" THEN [v EXCEPT !.release_candidate = n]
                 ELSE v,
                 Tail(segments))

\* The error of the i-th int(segments.pop(0)), if it raises.
pop_int_error(segments, i) ==
    IF i > Len(segments) THEN Raise("IndexError", "pop from empty list")
    ELSE IF segments[i][1] # "" THEN Raise("ValueError", "invalid literal for int()")
    ELSE NoError

Planned(existing, made) ==
    IF made.exc = "none" THEN [err |-> NoError, existing |-> existing, v |-> made.v]
    ELSE [err |-> Raise(made.exc, "Version.__init__"), existing |-> existing, v |-> NoVersion]

NotPlanned(err) == [err |-> err, existing |-> NoVersion, v |-> NoVersion]

\* The branch of _run for --newversion (update.py:75-90).
plan_newversion(package, existing, segments) ==
    IF \E i \in 1 .. 3 : pop_int_error(segments, i) # NoError
    THEN NotPlanned(pop_int_error(segments,
             CHOOSE i \in 1 .. 3 : /\ pop_int_error(segments, i) # NoError
                                   /\ \A h \in 1 .. (i - 1) : pop_int_error(segments, h) = NoError))
    ELSE LET made == Version(package, int(segments[1][2]), int(segments[2][2]),
                             int(segments[3][2]), None)
         IN  IF made.exc # "none" THEN Planned(existing, made)
             ELSE Planned(existing,
                          [exc |-> "none",
                           v |-> apply_segments(made.v, SubSeq(segments, 4, Len(segments)))])

\* The branch of _run for --rc (update.py:96-103).
plan_rc(package, existing, date) ==
    IF Truthy(existing.release_candidate)
    THEN Planned(existing, Version(package, existing.major, existing.minor, existing.micro,
                                   Some(OrZero(existing.release_candidate) + 1)))
    ELSE Planned(existing, Version(package, date.year - YEAR_START, date.month, 1, None))

\* The --patch branch handing the existing release candidate on.
plan_patch_keeps_candidate(package, existing) ==
    Planned(existing, Version(package, existing.major, existing.minor,
                              existing.micro + 1, existing.release_candidate))

\* The branch of _run for --patch (update.py:105-108).
plan_patch(package, existing) ==
    Planned(existing, Version(package, existing.major, existing.minor,
                              existing.micro + 1, None))

\* The --dev branch without the existing release candidate.
plan_dev_drops_candidate(package, existing) ==
    Planned(existing, Version_init(package, existing.major, existing.minor, existing.micro,
                                   None, None, None, Some(OrZero(existing.dev) + 1)))

\* The branch of _run for --dev (update.py:110-114).
plan_dev(package, existing) ==
    Planned(existing, Version_init(package, existing.major, existing.minor, existing.micro,
                                   existing.release_candidate, None, None,
                                   Some(OrZero(existing.dev) + 1)))

\* The branch without a mode flag taking a missing release candidate as 0.
plan_default_without_candidate(package, existing) ==
    Planned(existing, Version(package, existing.major, existing.minor,
                              existing.micro, Some(0)))

\* The branch of _run without a mode flag (update.py:116-123).
plan_default(package, existing) ==
    IF Truthy(existing.release_candidate)
    THEN Planned(existing, Version(package, existing.major, existing.minor,
                                   existing.micro, Some(0)))
    ELSE NotPlanned(Raise("ValueError", "You need to issue a prerelease first!"))

\* The mode a call takes: the first of the if/elif chain (update.py:75-116).
mode_of(a) ==
    IF a.newversion # <<>> THEN "newversion"
    ELSE IF a.create THEN "create"
    ELSE IF a.rc THEN "rc"
    ELSE IF a.patch THEN "patch"
    ELSE IF a.dev THEN "dev"
    ELSE "default"

\* The flag checks without the test of --create against --newversion.
check_flags_create_newversion(a) ==
    LET newversion == a.newversion # <<>>
    IN  IF (newversion /\ a.patch) \/ (newversion /\ a.dev) \/ (newversion /\ a.rc)
        THEN Raise("ValueError", "Only give --newversion")
        ELSE IF (a.dev /\ a.patch) \/ (a.dev /\ a.rc)
        THEN Raise("ValueError", "Only give --dev")
        ELSE IF (a.create /\ a.dev) \/ (a.create /\ a.patch) \/ (a.create /\ a.rc)
        THEN Raise("ValueError", "Only give --create")
        ELSE NoError

\* The flag checks of _run (update.py:65-73).
check_flags(a) ==
    LET newversion == a.newversion # <<>>
    IN  IF (newversion /\ a.patch) \/ (newversion /\ a.dev) \/ (newversion /\ a.rc)
        THEN Raise("ValueError", "Only give --newversion")
        ELSE IF (a.dev /\ a.patch) \/ (a.dev /\ a.rc)
        THEN Raise("ValueError", "Only give --dev")
        ELSE IF (a.create /\ a.dev) \/ (a.create /\ a.patch) \/ (a.create /\ a.rc)
                \/ (a.create /\ newversion)
        THEN Raise("ValueError", "Only give --create")
        ELSE NoError

\* The computation of existing and v with --create loading _version.py
\* first, as the other branches do.
plan_create_loads(fsys, path, a) ==
    LET loaded == existing_version(fsys, path)
        made == Version(a.package, a.date.year - YEAR_START, a.date.month, 0, None)
        p == IF loaded.err # NoError THEN NotPlanned(loaded.err)
             ELSE CASE mode_of(a) = "newversion" ->
                           plan_newversion(a.package, loaded.v, a.newversion)
                    [] mode_of(a) = "create" -> Planned(made.v, made)
                    [] mode_of(a) = "rc" -> plan_rc(a.package, loaded.v, a.date)
                    [] mode_of(a) = "patch" -> plan_patch(a.package, loaded.v)
                    [] mode_of(a) = "dev" -> plan_dev(a.package, loaded.v)
                    [] OTHER -> plan_default(a.package, loaded.v)
    IN  p @@ [io |-> <<"open _version.py r">>]

\* The computation of existing and v (update.py:75-126), with the read of
\* _version.py every branch but --create starts with.
plan(fsys, path, a) ==
    IF mode_of(a) = "create"
    THEN LET made == Version(a.package, a.date.year - YEAR_START, a.date.month, 0, None)
         IN  Planned(made.v, made) @@ [io |-> <<>>]
    ELSE LET loaded == existing_version(fsys, path)
             p == IF loaded.err # NoError THEN NotPlanned(loaded.err)
                  ELSE CASE mode_of(a) = "newversion" ->
                                plan_newversion(a.package, loaded.v, a.newversion)
                         [] mode_of(a) = "rc" -> plan_rc(a.package, loaded.v, a.date)
                         [] mode_of(a) = "patch" -> plan_patch(a.package, loaded.v)
                         [] mode_of(a) = "dev" -> plan_dev(a.package, loaded.v)
                         [] OTHER -> plan_default(a.package, loaded.v)
         IN  p @@ [io |-> <<"open _version.py r">>]

\* update.py:125-126
bump_rc(a, v) ==
    IF a.rc THEN [v EXCEPT !.release_candidate = Some(OrZero(v.release_candidate) + 1)]
    ELSE v

\* The needle for the unreleased version (update.py:128).
NEXT_repr(package) == split_hash_0(Version_repr(Version(package, NEXT, 0, 0, None).v))

\* The substitutions without the one for the double-quoted NEXT call.
substitute_single_quoted_only(content, package, existing, v) ==
    LET version_repr == split_hash_0(Version_repr(v))
        existing_version_repr == split_hash_0(Version_repr(v))
        c1 == IF Truthy(prerelease(existing))
              THEN replace(content, existing_version_repr, version_repr)
              ELSE content
        c2 == replace(c1, NEXT_repr(package), version_repr)
    IN  replace(c2, <<lower(package), " NEXT">>, public(v))

\* The substitutions without the one for '<package> NEXT'.
substitute_without_package_NEXT(content, package, existing, v) ==
    LET version_repr == split_hash_0(Version_repr(v))
        existing_version_repr == split_hash_0(Version_repr(v))
        c1 == IF Truthy(prerelease(existing))
              THEN replace(content, existing_version_repr, version_repr)
              ELSE content
        c2 == replace(c1, NEXT_repr(package), version_repr)
    IN  replace(c2, double_quoted(NEXT_repr(package)), version_repr)

\* The substitutions on the content of one file (update.py:144-160).
substitute(content, package, existing, v) ==
    LET version_repr == split_hash_0(Version_repr(v))
        existing_version_repr == split_hash_0(Version_repr(v))
        c1 == IF Truthy(prerelease(existing))
              THEN replace(content, existing_version_repr, version_repr)
              ELSE content
        c2 == replace(c1, NEXT_repr(package), version_repr)
        c3 == replace(c2, double_quoted(NEXT_repr(package)), version_repr)
    IN  replace(c3, <<lower(package), " NEXT">>, public(v))

\* The regular files path.walk() yields, in the order of FileNames.
walked(fsys, path) ==
    IF isdir(fsys, path)
    THEN SelectSeq(FileNames, LAMBDA n : isfile(fsys, path, n))
    ELSE <<>>

\* The walk writing every file it read back, changed or not.
RECURSIVE walk_io_always_writes(_, _, _, _, _, _)
walk_io_always_writes(fsys, path, names, package, existing, v) ==
    IF names = <<>> THEN <<>>
    ELSE LET x == Head(names)
         IN  <<"read " \o x, "write " \o x>>
             \o walk_io_always_writes(fsys, path, Tail(names), package, existing, v)

\* The reads and writes of the walk over the files in names (update.py:139-165).
RECURSIVE walk_io(_, _, _, _, _, _)
walk_io(fsys, path, names, package, existing, v) ==
    IF names = <<>> THEN <<>>
    ELSE LET x == Head(names)
             original_content == getContent(fsys, path, x)
         IN  <<"read " \o x>>
             \o (IF substitute(original_content, package, existing, v) # original_content
                 THEN <<"write " \o x>> ELSE <<>>)
             \o walk_io(fsys, path, Tail(names), package, existing, v)

\* The entries of the package root after the walk alone: _version.py
\* treated as the walk treats any file, and not saved afterwards.
rewritten_by_walk_only(fsys, path, package, existing, v) ==
    [n \in DOMAIN fsys[path.place].entries |->
        IF isfile(fsys, path, n)
        THEN File(substitute(getContent(fsys, path, n), package, existing, v))
        ELSE fsys[path.place].entries[n]]

\* The entries of the package root after the walk and the write of
\* _version.py (update.py:139-169).
rewritten(fsys, path, package, existing, v) ==
    [n \in DOMAIN fsys[path.place].entries |->
        IF n = "_version.py"
        THEN File(VERSIONPY_TEMPLATE(package, split_hash_0(Version_repr(v))))
        ELSE IF isfile(fsys, path, n)
        THEN File(substitute(getContent(fsys, path, n), package, existing, v))
        ELSE fsys[path.place].entries[n]]

\* A call that raises after _version.py was opened for writing, which
\* empties the file.
Failed_version_file_opened(fsys, a, err, path, io) ==
    [called |-> TRUE, args |-> a, err |-> err, path |-> path, existing |-> NoVersion,
     v |-> NoVersion, before |-> fsys, io |-> io,
     fs |-> IF path # NoPath /\ isdir(fsys, path)
            THEN [fsys EXCEPT ![path.place].entries["_version.py"] = File(<<>>)]
            ELSE fsys]

\* A call that raises: nothing was computed and the file system is as it was.
Failed(fsys, a, err, path, io) ==
    [called |-> TRUE, args |-> a, err |-> err, path |-> path, existing |-> NoVersion,
     v |-> NoVersion, before |-> fsys, io |-> io, fs |-> fsys]

\* _run with the flag checks made after the load of the existing version.
run_flags_after_load(fsys, a) ==
    LET found == IF a.path = NoPath THEN findPath(fsys, a.package)
                 ELSE [err |-> NoError, path |-> a.path, io |-> <<>>]
    IN  IF found.err # NoError THEN Failed(fsys, a, found.err, NoPath, found.io)
        ELSE
        LET p == plan(fsys, found.path, a)
        IN  IF p.err # NoError THEN Failed(fsys, a, p.err, found.path, found.io \o p.io)
            ELSE IF check_flags(a) # NoError
            THEN Failed(fsys, a, check_flags(a), found.path, found.io \o p.io)
            ELSE
            LET v == bump_rc(a, p.v)
                io == found.io \o p.io
                      \o walk_io(fsys, found.path, walked(fsys, found.path),
                                 a.package, p.existing, v)
            IN  IF ~isdir(fsys, found.path)
                THEN Failed(fsys, a, Raise("IOError", "_version.py"), found.path, io)
                ELSE [called |-> TRUE, args |-> a, err |-> NoError, path |-> found.path,
                      existing |-> p.existing, v |-> v, before |-> fsys,
                      io |-> io \o <<"write _version.py">>,
                      fs |-> [fsys EXCEPT ![found.path.place].entries =
                                  rewritten(fsys, found.path, a.package, p.existing, v)]]

\* _run(package, path, newversion, patch, rc, dev, create, _date, _getcwd):
\* how the call ends, what it computed, its file accesses in order, and the
\* file system it leaves.
run(fsys, a) ==
    LET found == IF a.path = NoPath THEN findPath(fsys, a.package)
                 ELSE [err |-> NoError, path |-> a.path, io |-> <<>>]
    IN  IF found.err # NoError THEN Failed(fsys, a, found.err, NoPath, found.io)
        ELSE IF check_flags(a) # NoError
        THEN Failed(fsys, a, check_flags(a), found.path, found.io)
        ELSE
        LET p == plan(fsys, found.path, a)
        IN  IF p.err # NoError THEN Failed(fsys, a, p.err, found.path, found.io \o p.io)
            ELSE
            LET v == bump_rc(a, p.v)
                io == found.io \o p.io
                      \o walk_io(fsys, found.path, walked(fsys, found.path),
                                 a.package, p.existing, v)
            IN  IF ~isdir(fsys, found.path)
                THEN Failed(fsys, a, Raise("IOError", "_version.py"), found.path, io)
                ELSE [called |-> TRUE, args |-> a, err |-> NoError, path |-> found.path,
                      existing |-> p.existing, v |-> v, before |-> fsys,
                      io |-> io \o <<"write _version.py">>,
                      fs |-> [fsys EXCEPT ![found.path.place].entries =
                                  rewritten(fsys, found.path, a.package, p.existing, v)]]

-----------------------------------------------------------------------------
(* The runs of the tool *)

MaxRuns == 2

\* The package the tests work on, as the identifier is given to the tool.
RunPackages == {"inctestpkg", "IncTestPkg"}

Dates == {[year |-> 2016, month |-> 8]}

NewVersions ==
    { <<>>,
      <<Seg("", "1"), Seg("", "2"), Seg("", "4"), Seg("rc", "1")>>,
      <<Seg("", "1"), Seg("", "2")>> }

AllArgs ==
    [package : RunPackages, path : {NoPath, Path("cur", DirName)},
     newversion : NewVersions, patch : BOOLEAN, rc : BOOLEAN, dev : BOOLEAN,
     create : BOOLEAN, date : Dates]

\* The calls made: every combination of the four flags, with at most one of
\* package, path and newversion away from the plain call of the tests.
Args ==
    { a \in AllArgs :
        Cardinality({ x \in {"package", "path", "newversion"} :
                        a[x] # [package |-> "inctestpkg", path |-> NoPath,
                                newversion |-> <<>>][x] }) <= 1 }

\* The text of a hand-written _version.py, as the tests set it up.
HandWritten(v) ==
    <<"\nfrom incremental import Version\n__version__ = ">>
    \o Version_repr(v) \o <<"\n__all__ = [\"__version__\"]\n">>

V(major, minor, micro, rc, dev) ==
    Version_init("inctestpkg", major, minor, micro, rc, None, None, dev).v

\* The texts a module of the package starts with: the module of the tests,
\* one with the NEXT call in both quote styles, one without any needle, and
\* one that names a release candidate.
TestModule ==
    <<"\nfrom incremental import Version\nintroduced_in = ">>
    \o NEXT_repr("inctestpkg")
    \o <<".short()\nnext_released_version = \"", "inctestpkg", " NEXT", "\"\n">>

QuotesModule ==
    <<"introduced_in = ">> \o double_quoted(NEXT_repr("inctestpkg"))
    \o <<"\nnext = ">> \o NEXT_repr("inctestpkg")
    \o <<"\nalso = ">> \o double_quoted(NEXT_repr("inctestpkg"))

PlainModule == <<"\nimport os\n">>

CandidateModule ==
    <<"introduced_in = ">> \o Version_repr(V(1, 2, 3, Some(1), Some(2)))
    \o <<"\n# ", "inctestpkg", " NEXT", " and ", "inctestpkg", " NEXT">>

Entries(ver, mod, sub) ==
    [n \in {FileNames[i] : i \in DOMAIN FileNames} |->
        CASE n = "_version.py" -> ver
          [] n = "__init__.py" -> mod
          [] n = "sub" -> Directory
          [] OTHER -> sub]

\* A version with a post-release number, as Version.__init__ accepts it.
PostRelease == Version_init("inctestpkg", 1, 2, 3, Some(1), None, Some(1), None).v

\* The package roots a behaviour starts from: the set-ups of the tests
\* (with and without _version.py) and roots whose version is a release
\* candidate, a dev release or a post-release.
InitialEntries ==
    { Entries(File(HandWritten(V(1, 2, 3, None, None))), File(TestModule), File(PlainModule)),
      Entries(Absent, File(TestModule), Absent),
      Entries(File(HandWritten(V(1, 2, 3, Some(1), Some(2)))), File(CandidateModule),
              File(QuotesModule)),
      Entries(File(HandWritten(V(1, 2, 3, None, Some(2)))), File(QuotesModule),
              File(PlainModule)),
      Entries(File(HandWritten(PostRelease)), File(PlainModule), File(TestModule)) }

NoArgs ==
    [package |-> "", path |-> NoPath, newversion |-> <<>>, patch |-> FALSE, rc |-> FALSE,
     dev |-> FALSE, create |-> FALSE, date |-> [year |-> 0, month |-> 0]]

NoOut ==
    [done |-> FALSE, lt |-> "", le |-> "", eq |-> "", ne |-> "", gt |-> "", ge |-> ""]

NoFs ==
    [r \in Places |-> [isdir |-> FALSE, entries |-> [n \in {"_version.py"} |-> Absent]]]

NoRes ==
    [called |-> FALSE, args |-> NoArgs, err |-> NoError, path |-> NoPath,
     existing |-> NoVersion, v |-> NoVersion, before |-> NoFs, io |-> <<>>]

Init ==
    /\ va = NoVersion
    /\ vb = NoVersion
    /\ out = NoOut
    /\ \E e \in InitialEntries, s \in BOOLEAN, c \in BOOLEAN :
           fs = [src |-> [isdir |-> s, entries |-> e], cur |-> [isdir |-> c, entries |-> e]]
    /\ res = NoRes
    /\ runs = 0

\* One call of _run, on any arguments.  A call that raised left the file
\* system as it was, and the behaviour ends there.
Run ==
    /\ runs < MaxRuns
    /\ res.err = NoError
    /\ \E a \in Args : \E r \in {run(fs, a)} :
           /\ fs' = r.fs
           /\ res' = [x \in DOMAIN r \ {"fs"} |-> r[x]]
    /\ runs' = runs + 1
    /\ UNCHANGED <<va, vb, out>>

Next == Run

Spec == Init /\ [][Next]_vars

-----------------------------------------------------------------------------
(* The comparison under test *)

InitOrd ==
    /\ va \in Versions
    /\ vb \in UNION { VersionsOf(p) : p \in PackageNames }
    /\ out = NoOut
    /\ fs = NoFs
    /\ res = NoRes
    /\ runs = 0

\* Apply each of the six relational operators to (va, vb).
Compare ==
    /\ ~out.done
    /\ out' = [done |-> TRUE,
               lt |-> Version_lt(va, vb), le |-> Version_le(va, vb),
               eq |-> Version_eq(va, vb), ne |-> Version_ne(va, vb),
               gt |-> Version_gt(va, vb), ge |-> Version_ge(va, vb)]
    /\ UNCHANGED <<va, vb, fs, res, runs>>

NextOrd == Compare

SpecOrd == InitOrd /\ [][NextOrd]_vars

-----------------------------------------------------------------------------
(* Claims about the ordering, checked under SpecOrd *)

\* The comparison tuples of the Versions of one package.
VersionKeys == { cmp_key(c) : c \in Versions }

(* C1: Version ordering is a strict total order per package.  For Versions *)
(* a, b of one package (case-insensitively) exactly one of a < b, a == b,  *)
(* a > b is true, a > b is the converse of b < a and == is symmetric; and  *)
(* a < b together with b < c implies a < c for every c of that package.    *)
C1_StrictTotalOrder ==
    (out.done /\ SamePackage(va, vb)) =>
        /\ {out.lt, out.eq, out.gt} \subseteq {"True", "False"}
        /\ Cardinality({ r \in {<<"lt", out.lt>>, <<"eq", out.eq>>, <<"gt", out.gt>>} :
                         r[2] = "True" }) = 1
        /\ out.gt = Version_lt(vb, va)
        /\ out.eq = Version_eq(vb, va)
        /\ out.lt = "True" =>
              \E ka \in {cmp_key(va)}, kb \in {cmp_key(vb)} :
                  \A kc \in VersionKeys : cmp(kb, kc) < 0 => cmp(ka, kc) < 0

\* A NEXT version with rc and dev present compared with a concrete version
\* with post present, across package-name case.
C1_Witness ==
    /\ out.done /\ va.package # vb.package /\ SamePackage(va, vb)
    /\ va.major = NEXT /\ va.release_candidate # None /\ va.dev # None
    /\ vb.major # NEXT /\ vb.post # None /\ vb.release_candidate = None
    /\ out.gt = "True"

(* C2: comparing two Versions whose package names differ after lowercasing *)
(* raises IncomparableVersions under each of the six relational operators, *)
(* == included, whatever the other fields are; two Versions whose package  *)
(* names are equal after lowercasing are compared and no operator raises.  *)
C2_Incomparable ==
    out.done =>
        IF SamePackage(va, vb)
        THEN {out.lt, out.le, out.eq, out.ne, out.gt, out.ge} \subseteq {"True", "False"}
        ELSE {out.lt, out.le, out.eq, out.ne, out.gt, out.ge} = {"IncomparableVersions"}

\* An equality test between equal fields of two different packages.
C2_Witness ==
    /\ out.done /\ ~SamePackage(va, vb)
    /\ [va EXCEPT !.package = ""] = [vb EXCEPT !.package = ""]
    /\ out.eq = "IncomparableVersions"

-----------------------------------------------------------------------------
(* Claims about _run, checked under Spec *)

\* The last call returned normally.
Ok == res.called /\ res.err = NoError

\* The mode flags a call has active.
ActiveModes(a) ==
    { m \in {"create", "newversion", "patch", "rc", "dev"} :
        \/ m = "create" /\ a.create
        \/ m = "newversion" /\ a.newversion # <<>>
        \/ m = "patch" /\ a.patch
        \/ m = "rc" /\ a.rc
        \/ m = "dev" /\ a.dev }

\* The entries of the package root of the last call, before and after it.
BeforeEntries == res.before[res.path.place].entries

AfterEntries == fs[res.path.place].entries

\* The regular files the last call found under the package root.
RegularFiles == { n \in DOMAIN BeforeEntries : BeforeEntries[n].kind = "file" }

\* The version (package, major, minor, micro) with the optional fields given.
Ver(package, major, minor, micro, rc, dev) ==
    [package |-> package, major |-> major, minor |-> minor, micro |-> micro,
     release_candidate |-> rc, post |-> None, dev |-> dev]

InvalidCombination ==
    {"Only give --newversion", "Only give --dev", "Only give --create"}

(* C3: a call without any mode flag on an existing version that carries a  *)
(* release candidate produces (existing.major, existing.minor,             *)
(* existing.micro) with release_candidate, post and dev absent, and        *)
(* _version.py binds Version('<package>', major, minor, micro) without a   *)
(* release_candidate= field.                                               *)
C3_FinalizeClearsCandidate ==
    (Ok /\ ActiveModes(res.args) = {}) =>
        /\ res.v = Ver(res.args.package, res.existing.major, res.existing.minor,
                       res.existing.micro, None, None)
        /\ AfterEntries["_version.py"].content =
              VERSIONPY_TEMPLATE(res.args.package,
                  <<"Version(", "'", res.args.package, "'", ", ", Str(res.existing.major),
                    ", ", Str(res.existing.minor), ", ", Str(res.existing.micro), ")">>)

(* C4: the rc flag alone on an existing version that carries release       *)
(* candidate n produces (existing.major, existing.minor, existing.micro,   *)
(* release_candidate = n + 1), dev discarded.                              *)
C4_CandidateUpByOne ==
    (Ok /\ ActiveModes(res.args) = {"rc"} /\ Truthy(res.existing.release_candidate)) =>
        res.v = Ver(res.args.package, res.existing.major, res.existing.minor,
                    res.existing.micro, Some(res.existing.release_candidate[1] + 1), None)

(* C5: the rc flag alone on an existing version that carries no release    *)
(* candidate produces (date.year - 2000, date.month, 0,                    *)
(* release_candidate = 1), whatever the existing major, minor, micro, dev. *)
C5_FirstCandidateOfNewLine ==
    (Ok /\ ActiveModes(res.args) = {"rc"} /\ ~Truthy(res.existing.release_candidate)) =>
        res.v = Ver(res.args.package, res.args.date.year - YEAR_START,
                    res.args.date.month, 0, Some(1), None)

(* C6: with the patch and rc flags together the call succeeds and produces *)
(* (existing.major, existing.minor, existing.micro + 1,                    *)
(* release_candidate = 1).                                                 *)
C6_PatchCandidate ==
    (/\ res.called /\ ActiveModes(res.args) = {"patch", "rc"}
     /\ res.path # NoPath /\ isfile(res.before, res.path, "_version.py")) =>
        /\ res.err = NoError
        /\ res.v = Ver(res.args.package, res.existing.major, res.existing.minor,
                       res.existing.micro + 1, Some(1), None)

(* C7, as claimed: a call with two active flags among create, newversion,  *)
(* patch, rc, dev fails with a ValueError, and no new version is computed  *)
(* or persisted.                                                           *)
C7_Original ==
    (res.called /\ Cardinality(ActiveModes(res.args)) >= 2) =>
        /\ res.err.exc = "ValueError"
        /\ res.v = NoVersion /\ fs = res.before

(* C7, amended: a call with two active flags among create, newversion,     *)
(* patch, rc, dev, other than patch together with rc alone, fails with a   *)
(* ValueError and no new version is computed or persisted; the error is    *)
(* the invalid-combination one when the package root was given or found,   *)
(* and the not-found one of the lookup, which comes first, otherwise.      *)
(* Patch together with rc is not rejected as a combination.                *)
C7_ExclusiveModes ==
    /\ (/\ res.called /\ Cardinality(ActiveModes(res.args)) >= 2
        /\ ActiveModes(res.args) # {"patch", "rc"}) =>
           /\ res.err.exc = "ValueError"
           /\ res.v = NoVersion /\ fs = res.before
           /\ IF res.path # NoPath THEN res.err.msg \in InvalidCombination
              ELSE res.err.msg = "Can't find under ./src or ./"
    /\ (res.called /\ ActiveModes(res.args) = {"patch", "rc"}) =>
           res.err.msg \notin InvalidCombination

\* The dev and patch flags together, on a package root that was found.
C7_Witness ==
    /\ res.called /\ ActiveModes(res.args) = {"dev", "patch"}
    /\ res.path # NoPath /\ res.err = Raise("ValueError", "Only give --dev")

(* C8: when the existing version carried a release candidate, every        *)
(* occurrence of the existing version's repr in every regular file under   *)
(* the package root is replaced by the new version's repr.                 *)
C8_ExistingReprReplaced ==
    (Ok /\ Truthy(res.existing.release_candidate)) =>
        \A n \in RegularFiles \ {"_version.py"} :
            /\ count(AfterEntries[n].content, Version_repr(res.existing)) = 0
            /\ count(AfterEntries[n].content, Version_repr(res.v))
                  >= count(BeforeEntries[n].content, Version_repr(res.existing))

(* C9: every occurrence of '<lowercased package> NEXT' in a file under the *)
(* package root is replaced by '<lowercased package> ' followed by the new *)
(* version's public() string.                                              *)
C9_PackageNextReplaced ==
    Ok =>
        \A n \in RegularFiles \ {"_version.py"} :
            /\ count(AfterEntries[n].content, <<lower(res.args.package), " NEXT">>) = 0
            /\ count(AfterEntries[n].content,
                     <<lower(res.args.package), " ">> \o public(res.v))
                  >= count(BeforeEntries[n].content, <<lower(res.args.package), " NEXT">>)

(* C10: every occurrence of the repr of Version(<package>, 'NEXT', 0, 0),  *)
(* single-quoted or double-quoted, in every regular file under the package *)
(* root is replaced by the new version's repr: afterwards no file holds    *)
(* either form, and a file holds the new repr once for each occurrence of  *)
(* a form (and of the new repr itself) it held before.                     *)
C10_NextReprReplaced ==
    Ok =>
        /\ \A n \in RegularFiles :
              /\ count(AfterEntries[n].content, NEXT_repr(res.args.package)) = 0
              /\ count(AfterEntries[n].content,
                       double_quoted(NEXT_repr(res.args.package))) = 0
        /\ \A n \in RegularFiles \ {"_version.py"} :
              count(AfterEntries[n].content, Version_repr(res.v))
                 = count(BeforeEntries[n].content, NEXT_repr(res.args.package))
                   + count(BeforeEntries[n].content,
                           double_quoted(NEXT_repr(res.args.package)))
                   + count(BeforeEntries[n].content, Version_repr(res.v))

\* A run over a module that holds the NEXT call in both quote styles.
C10_Witness ==
    /\ Ok
    /\ \E n \in RegularFiles \ {"_version.py"} :
          /\ count(BeforeEntries[n].content, NEXT_repr(res.args.package)) = 1
          /\ count(BeforeEntries[n].content,
                   double_quoted(NEXT_repr(res.args.package))) = 2
          /\ count(AfterEntries[n].content, Version_repr(res.v)) = 3

(* C11: --patch alone on an existing version (major, minor, micro) with    *)
(* any release_candidate, post and dev gives the new version               *)
(* (major, minor, micro + 1) with release_candidate, post and dev absent.  *)
C11_PatchAlone ==
    (Ok /\ ActiveModes(res.args) = {"patch"}) =>
        res.v = Ver(res.args.package, res.existing.major, res.existing.minor,
                    res.existing.micro + 1, None, None)

\* A patch run on a version that carries a release candidate and a post
\* number.
C11_Witness ==
    /\ Ok
    /\ ActiveModes(res.args) = {"patch"}
    /\ res.existing.release_candidate # None
    /\ res.existing.post # None
    /\ res.v.micro = res.existing.micro + 1

(* C12: --dev alone keeps the existing major, minor, micro and             *)
(* release_candidate and sets dev to (existing.dev or 0) + 1, so that a    *)
(* dev run on the version a dev run saved gives the next dev number on the *)
(* same base version.                                                      *)
C12_DevAlone ==
    (Ok /\ ActiveModes(res.args) = {"dev"}) =>
        /\ res.v.major = res.existing.major
        /\ res.v.minor = res.existing.minor
        /\ res.v.micro = res.existing.micro
        /\ res.v.release_candidate = res.existing.release_candidate
        /\ res.v.dev = Some(OrZero(res.existing.dev) + 1)

\* The second of two dev runs on a release candidate: dev 1, then dev 2.
C12_Witness ==
    /\ Ok
    /\ ActiveModes(res.args) = {"dev"}
    /\ runs = 2
    /\ res.existing.release_candidate = Some(1)
    /\ res.existing.dev = Some(1)
    /\ res.v = Ver(res.args.package, 1, 2, 3, Some(1), Some(2))

\* The file accesses of the last call, as a set.
Accesses == { res.io[i] : i \in DOMAIN res.io }

Loaded == existing_version(res.before, res.path)

(* C14: a call without any mode flag on an existing version that carries   *)
(* no release candidate fails with ValueError 'You need to issue a         *)
(* prerelease first!', computes no new version and writes nothing.         *)
C14_NoPrerelease ==
    (/\ res.called
     /\ ActiveModes(res.args) = {}
     /\ res.path # NoPath
     /\ Loaded.err = NoError
     /\ Loaded.v.release_candidate = None) =>
        /\ res.err = Raise("ValueError", "You need to issue a prerelease first!")
        /\ res.v = NoVersion
        /\ fs = res.before
        /\ \A i \in DOMAIN res.io : res.io[i] \in {"isdir src", "isdir cur", "open _version.py r"}

\* A call without flags on version 1.2.3.dev2, which has no release candidate.
C14_Witness ==
    /\ res.called
    /\ ActiveModes(res.args) = {}
    /\ res.path # NoPath
    /\ Loaded.err = NoError
    /\ Loaded.v.release_candidate = None
    /\ Loaded.v.dev = Some(2)
    /\ res.err.exc = "ValueError"

\* The texts the walk of the last call looks for; when the existing version
\* is a release candidate, its repr and the repr of the new version among
\* them.
Needles ==
    (IF Truthy(prerelease(res.existing))
     THEN {Version_repr(res.existing), Version_repr(res.v)} ELSE {})
    \cup { NEXT_repr(res.args.package), double_quoted(NEXT_repr(res.args.package)),
           <<lower(res.args.package), " NEXT">> }

NoNeedle(n) == \A needle \in Needles : count(BeforeEntries[n].content, needle) = 0

\* How many times the last call opened the file n for writing.
Writes(n) == Cardinality({ i \in DOMAIN res.io : res.io[i] = "write " \o n })

(* C15 as stated: after a successful run every regular file under the      *)
(* package root that holds none of the needles was never opened for        *)
(* writing and has the content it had before.                              *)
C15_Original ==
    Ok => \A n \in RegularFiles :
              NoNeedle(n) => /\ Writes(n) = 0
                             /\ AfterEntries[n] = BeforeEntries[n]

(* C15: the walk writes a file only if the substitutions changed its       *)
(* content. Every regular file under the package root other than           *)
(* _version.py is opened for writing exactly when its content changes, and *)
(* one that holds none of the needles is never opened for writing and is   *)
(* identical before and after the run; a _version.py without needles is    *)
(* written once, by the save that follows the walk; entries that are not   *)
(* regular files are left alone.                                           *)
C15_WrittenOnlyIfChanged ==
    Ok =>
        /\ \A n \in RegularFiles \ {"_version.py"} :
              /\ Writes(n) = IF AfterEntries[n] # BeforeEntries[n] THEN 1 ELSE 0
              /\ NoNeedle(n) => /\ Writes(n) = 0
                                /\ AfterEntries[n] = BeforeEntries[n]
        /\ ("_version.py" \in RegularFiles /\ NoNeedle("_version.py"))
              => Writes("_version.py") = 1
        /\ \A n \in DOMAIN BeforeEntries \ (RegularFiles \cup {"_version.py"}) :
              AfterEntries[n] = BeforeEntries[n]

\* A run that rewrites one module and leaves a module without needles alone.
C15_Witness ==
    /\ Ok
    /\ \E n, m \in RegularFiles \ {"_version.py"} :
          /\ NoNeedle(n)
          /\ Writes(n) = 0
          /\ AfterEntries[n] = BeforeEntries[n]
          /\ Writes(m) = 1
          /\ AfterEntries[m] # BeforeEntries[m]

(* C16: at the end of every successful run _version.py under the package   *)
(* root is a file that holds exactly the template filled with the package  *)
(* name and the repr of the new version, and the write of it is the last   *)
(* file access of the run, after the walk; this is so whatever the file    *)
(* held, whether or not it existed, and whether or not another file        *)
(* changed.                                                                *)
C16_VersionFileSaved ==
    Ok =>
        /\ AfterEntries["_version.py"]
              = File(VERSIONPY_TEMPLATE(res.args.package, Version_repr(res.v)))
        /\ res.io # <<>>
        /\ res.io[Len(res.io)] = "write _version.py"
        /\ \A n \in RegularFiles : \E i \in 1 .. (Len(res.io) - 1) : res.io[i] = "read " \o n

\* A second run that finds no needle left: no other file changes, and
\* _version.py goes from the template of the first run to that of the second.
C16_Witness ==
    /\ Ok
    /\ runs = 2
    /\ \A n \in DOMAIN BeforeEntries \ {"_version.py"} : AfterEntries[n] = BeforeEntries[n]
    /\ BeforeEntries["_version.py"]
          = File(VERSIONPY_TEMPLATE(res.args.package, Version_repr(res.existing)))
    /\ res.v # res.existing
    /\ AfterEntries["_version.py"]
          = File(VERSIONPY_TEMPLATE(res.args.package, Version_repr(res.v)))

\* The last call had two mode flags that _run rejects together.
Conflicting ==
    /\ res.called
    /\ Cardinality(ActiveModes(res.args)) >= 2
    /\ ActiveModes(res.args) # {"patch", "rc"}

(* C17 as stated: when the mode flags conflict, the invalid-combination    *)
(* failure is raised before any file-system access, the lookup of the      *)
(* package directory included, so that the outcome does not depend on      *)
(* whether the package directory exists.                                   *)
C17_Original ==
    Conflicting =>
        /\ res.err.msg \in InvalidCombination
        /\ res.io = <<>>

(* C17: when the mode flags conflict, no read of _version.py, no read of a *)
(* file of the walk and no write precedes the flag check; only the lookup  *)
(* of the package directory does, when no path was given. The outcome is   *)
(* the invalid-combination failure when the directory was given or found,  *)
(* whether or not _version.py exists, and the not-found failure of the     *)
(* lookup otherwise; the file system is left as it was.                    *)
C17_FlagsBeforeFiles ==
    Conflicting =>
        /\ \A i \in DOMAIN res.io : res.io[i] \in {"isdir src", "isdir cur"}
        /\ res.args.path # NoPath => res.io = <<>>
        /\ res.args.path = NoPath => res.io # <<>>
        /\ fs = res.before
        /\ IF res.path # NoPath THEN res.err.msg \in InvalidCombination
           ELSE res.err = Raise("ValueError", "Can't find under ./src or ./")

\* Conflicting flags on a package directory found under ./ that has no
\* _version.py: both directory tests were made, and nothing else.
C17_Witness ==
    /\ Conflicting
    /\ res.io = <<"isdir src", "isdir cur">>
    /\ res.path # NoPath
    /\ ~isfile(res.before, res.path, "_version.py")
    /\ res.err.msg \in InvalidCombination

-----------------------------------------------------------------------------
(* Further claims about the ordering, checked under SpecOrd *)

\* What the six operators give when the left side is the greater, the
\* smaller, and when the sides are equal.
Greater == [done |-> TRUE, lt |-> "False", le |-> "False", eq |-> "False",
            ne |-> "True", gt |-> "True", ge |-> "True"]

Less == [done |-> TRUE, lt |-> "True", le |-> "True", eq |-> "False",
         ne |-> "True", gt |-> "False", ge |-> "False"]

Equal == [done |-> TRUE, lt |-> "False", le |-> "True", eq |-> "True",
          ne |-> "False", gt |-> "False", ge |-> "True"]

(* C18: a Version whose major is NEXT is strictly greater than every       *)
(* Version of the same package whose major is an integer, whatever the     *)
(* minor, micro, release_candidate, post and dev of that one, on either    *)
(* side of the operator; two NEXT Versions whose other fields are          *)
(* identical are equal.                                                    *)
C18_NextGreatest ==
    (out.done /\ SamePackage(va, vb)) =>
        /\ (va.major = NEXT /\ vb.major # NEXT) => out = Greater
        /\ (va.major # NEXT /\ vb.major = NEXT) => out = Less
        /\ (/\ va.major = NEXT /\ vb.major = NEXT
            /\ [va EXCEPT !.package = ""] = [vb EXCEPT !.package = ""]) => out = Equal

\* NEXT with release_candidate, post and dev 0 against the release 1.1.1
\* with a post number, which no other integer version of the model exceeds.
C18_Witness ==
    /\ out = Greater
    /\ SamePackage(va, vb)
    /\ va.major = NEXT /\ va.release_candidate = Some(0) /\ va.dev = Some(0)
    /\ vb.major = 1 /\ vb.minor = 1 /\ vb.micro = 1
    /\ vb.release_candidate = None /\ vb.post = Some(1) /\ vb.dev = None

(* C19: for every package, major, minor, micro and release candidate       *)
(* number n, 0 included, the Version with release_candidate = n is         *)
(* strictly less than the Version with the same major, minor and micro and *)
(* no release candidate, whatever post and dev are on either side.         *)
C19_CandidateBeforeRelease ==
    (/\ out.done /\ SamePackage(va, vb)
     /\ va.major = vb.major /\ va.minor = vb.minor /\ va.micro = vb.micro
     /\ va.release_candidate # None /\ vb.release_candidate = None) =>
        /\ out = Less
        /\ Version_gt(vb, va) = "True"

\* Release candidate 0 with a post number and no dev, against a dev release
\* of the same version without a release candidate and without post.
C19_Witness ==
    /\ out = Less
    /\ SamePackage(va, vb)
    /\ va.major = vb.major /\ va.minor = vb.minor /\ va.micro = vb.micro
    /\ va.release_candidate = Some(0) /\ va.post = Some(1) /\ va.dev = None
    /\ vb.release_candidate = None /\ vb.post = None /\ vb.dev = Some(0)

(* C20: for every package, major, minor, micro, release candidate and      *)
(* post, the same on both sides, and dev number d, the Version with        *)
(* dev = d is strictly less than the otherwise identical Version with no   *)
(* dev.                                                                    *)
C20_DevBeforeRelease ==
    (/\ out.done /\ SamePackage(va, vb)
     /\ va.dev # None
     /\ [va EXCEPT !.package = "", !.dev = None] = [vb EXCEPT !.package = ""]) =>
        /\ out = Less
        /\ Version_gt(vb, va) = "True"

\* dev 1 of a release candidate with a post number against the same
\* without dev, the package name written in another case.
C20_Witness ==
    /\ out = Less
    /\ va.package # vb.package
    /\ va.dev = Some(1) /\ va.release_candidate = Some(1) /\ va.post = Some(0)
    /\ [va EXCEPT !.package = "", !.dev = None] = [vb EXCEPT !.package = ""]

\* What _existing_version gives on the _version.py that a run saving v
\* writes (update.py:131, 167-169, then update.py:43-49).
Reloaded(v) == exec_version(VERSIONPY_TEMPLATE(v.package, split_hash_0(Version_repr(v))))

(* C21: for every constructible Version v, evaluating the constructor call *)
(* that repr(v) writes gives a Version equal to v under ==, with the same  *)
(* fields and the same optional fields present; so the version loaded from *)
(* the _version.py that a run saved is the version that run saved.         *)
C21_ReprRoundTrip ==
    out.done =>
        \A v \in {va, vb} :
            /\ exec_version(Version_repr(v)) = [err |-> NoError, v |-> v]
            /\ Reloaded(v) = [err |-> NoError, v |-> v]
            /\ Version_eq(Reloaded(v).v, v) = "True"

\* A NEXT version with release candidate, post and dev 0, and an integer
\* version of a package written in capitals with all three present.
C21_Witness ==
    /\ out.done
    /\ va.major = NEXT /\ va.release_candidate = Some(0)
    /\ va.post = Some(0) /\ va.dev = Some(0)
    /\ vb.package = "IncTestPkg" /\ vb.major = 1
    /\ vb.release_candidate = Some(0) /\ vb.post = Some(1) /\ vb.dev = Some(1)
    /\ Reloaded(va).v = va
    /\ Reloaded(vb).v = vb

\* Version(v.package, "NEXT", ...) with the other fields of v and the
\* deprecated prerelease argument pre.
AsNEXT(v, pre) ==
    Version_init(v.package, NEXT, v.minor, v.micro, v.release_candidate, pre, v.post, v.dev)

\* Every field of v but package and major is 0 or absent.
AllZero(v) ==
    /\ v.minor = 0 /\ v.micro = 0
    /\ v.release_candidate \in {None, Some(0)}
    /\ v.post \in {None, Some(0)}
    /\ v.dev \in {None, Some(0)}

(* C22: constructing a Version with major NEXT fails with ValueError when  *)
(* any of minor, micro, release_candidate (or the deprecated prerelease),  *)
(* post, dev is non-zero, and succeeds, keeping the fields as given, when  *)
(* all of them are zero or absent; public() of a NEXT Version is exactly   *)
(* NEXT.                                                                   *)
C22_NextConstruction ==
    \A v \in {va, vb} :
        /\ v.major # NEXT =>
              \A pre \in Opts :
                  IF AllZero(v) /\ pre \in {None, Some(0)}
                  THEN /\ AsNEXT(v, pre).exc = "none"
                       /\ AsNEXT(v, pre).v = [v EXCEPT !.major = NEXT]
                       /\ public(AsNEXT(v, pre).v) = <<"NEXT">>
                  ELSE AsNEXT(v, pre) = [exc |-> "ValueError", v |-> NoVersion]
        /\ v.major = NEXT => (AllZero(v) /\ public(v) = <<"NEXT">>)

\* A NEXT Version constructed with release candidate, post and dev 0, next
\* to fields whose only non-zero one is dev, which NEXT does not accept.
C22_Witness ==
    /\ out.done
    /\ va.major = NEXT /\ va.release_candidate = Some(0)
    /\ va.post = Some(0) /\ va.dev = Some(0)
    /\ public(va) = <<"NEXT">>
    /\ vb.major = 0 /\ vb.minor = 0 /\ vb.micro = 0
    /\ vb.release_candidate = None /\ vb.post = None /\ vb.dev = Some(1)
    /\ AsNEXT(vb, None).exc = "ValueError"

\* +infinity among the numbers of the model: above every field value.
Top == MaxNum + 1

\* The tuple (major, minor, micro, rc, post, dev) of v as integers, with
\* NEXT, an absent rc and an absent dev as +infinity and an absent post
\* as -1.
Substituted(v) ==
    << IF v.major = NEXT THEN Top ELSE v.major,
       v.minor,
       v.micro,
       IF v.release_candidate = None THEN Top ELSE v.release_candidate[1],
       IF v.post = None THEN -1 ELSE v.post[1],
       IF v.dev = None THEN Top ELSE v.dev[1] >>

\* Three-way lexicographic comparison of two integer tuples of one length.
Lexicographic(s, t) ==
    LET differ == { i \in DOMAIN s : s[i] # t[i] }
    IN  IF differ = {} THEN 0
        ELSE LET first == CHOOSE i \in differ : \A j \in differ : i <= j
             IN  IF s[first] < t[first] THEN -1 ELSE 1

(* C24: for two Versions of one package the six operators give what the    *)
(* lexicographic three-way comparison of (major, minor, micro, rc, post,   *)
(* dev) gives after NEXT, an absent rc and an absent dev are replaced by   *)
(* +infinity and an absent post by -1. In particular a Version without     *)
(* post is strictly below the same Version with any post >= 0, and two     *)
(* different release candidates of one major.minor.micro are ordered by    *)
(* their rc alone, whatever post and dev are.                              *)
C24_Lexicographic ==
    (out.done /\ SamePackage(va, vb)) =>
        /\ out = CASE Lexicographic(Substituted(va), Substituted(vb)) = -1 -> Less
                   [] Lexicographic(Substituted(va), Substituted(vb)) = 0 -> Equal
                   [] OTHER -> Greater
        /\ (/\ va.post = None /\ vb.post # None
            /\ [va EXCEPT !.package = ""] = [vb EXCEPT !.package = "", !.post = None])
              => out = Less
        /\ (/\ va.major = vb.major /\ va.minor = vb.minor /\ va.micro = vb.micro
            /\ va.release_candidate # None /\ vb.release_candidate # None
            /\ va.release_candidate[1] < vb.release_candidate[1])
              => out = Less

\* A release with dev and without post against the same with post 0.
C24_Witness ==
    /\ out = Less
    /\ SamePackage(va, vb)
    /\ va.post = None /\ vb.post = Some(0) /\ va.dev = Some(1)
    /\ va.release_candidate = None
    /\ [va EXCEPT !.package = ""] = [vb EXCEPT !.package = "", !.post = None]
    /\ Lexicographic(Substituted(va), Substituted(vb)) = -1

-----------------------------------------------------------------------------
(* Further claims about _run, checked under Spec *)

\* The directory tests the last call made, in order.
Lookups == SelectSeq(res.io, LAMBDA x : x \in {"isdir src", "isdir cur"})

(* C23: without an explicit path the package root is                       *)
(* <cwd>/src/<lowercased name> if that directory exists, else              *)
(* <cwd>/<lowercased name> if that exists, else the run fails with the     *)
(* not-found ValueError before any version is read or written; the name    *)
(* looked for is the lowercased one whatever the case of the package       *)
(* identifier; an explicit path is taken as the root without any lookup.   *)
C23_PackageLocation ==
    res.called =>
        IF res.args.path # NoPath
        THEN res.path = res.args.path /\ Lookups = <<>>
        ELSE IF res.before["src"].isdir
        THEN res.path = Path("src", DirName) /\ Lookups = <<"isdir src">>
        ELSE IF res.before["cur"].isdir
        THEN res.path = Path("cur", DirName) /\ Lookups = <<"isdir src", "isdir cur">>
        ELSE /\ res.err = Raise("ValueError", "Can't find under ./src or ./")
             /\ res.io = <<"isdir src", "isdir cur">>
             /\ res.path = NoPath /\ res.existing = NoVersion /\ res.v = NoVersion
             /\ fs = res.before

\* The package named in capitals, its directory found under ./ after
\* ./src did not have it.
C23_Witness ==
    /\ Ok
    /\ res.args.package = "IncTestPkg" /\ res.args.path = NoPath
    /\ ~res.before["src"].isdir
    /\ res.path = Path("cur", "inctestpkg")
    /\ Lookups = <<"isdir src", "isdir cur">>

\* The failures of _run the model has.
InvalidCombinationFailure ==
    res.err.exc = "ValueError" /\ res.err.msg \in InvalidCombination

NotFoundFailure == res.err = Raise("ValueError", "Can't find under ./src or ./")

MissingArtifactFailure ==
    res.err = Raise("IOError", "_version.py") /\ "open _version.py r" \in Accesses

NoPrereleaseFailure == res.err = Raise("ValueError", "You need to issue a prerelease first!")

MalformedNewversionFailure ==
    /\ res.args.newversion # <<>>
    /\ res.err \in {Raise("IndexError", "pop from empty list"),
                    Raise("ValueError", "invalid literal for int()")}

(* C25: every failing run leaves the file tree as it was. When _run fails  *)
(* with invalid-combination, package-not-found, missing-artifact,          *)
(* no-prerelease or a malformed newversion, it fails before the walk       *)
(* starts: no file of the tree was read by the walk and no file, not       *)
(* _version.py either, was written.                                        *)
C25_FailureLeavesTree ==
    (res.called /\ res.err # NoError) =>
        /\ fs = res.before
        /\ \A n \in DOMAIN res.before["src"].entries : Writes(n) = 0
        /\ (\/ InvalidCombinationFailure \/ NotFoundFailure \/ MissingArtifactFailure
            \/ NoPrereleaseFailure \/ MalformedNewversionFailure)
              => \A i \in DOMAIN res.io :
                     res.io[i] \in {"isdir src", "isdir cur", "open _version.py r"}

\* A newversion with two numbers only, on a package root with _version.py
\* and a module holding needles: the call raises and the tree is as before.
C25_Witness ==
    /\ MalformedNewversionFailure
    /\ res.path # NoPath
    /\ isfile(res.before, res.path, "_version.py")
    /\ \E n \in RegularFiles : ~NoNeedle(n)
    /\ fs = res.before

(* C26: a run without mode flags made immediately after a successful rc    *)
(* run on the same package root succeeds, and the version it saves is      *)
(* strictly greater than the release candidate the rc run saved.           *)
C26_FinalizeAboveCandidate ==
    [][(/\ Ok
        /\ "rc" \in ActiveModes(res.args)
        /\ runs' = runs + 1
        /\ ActiveModes(res'.args) = {}
        /\ res'.path = res.path)
          => /\ res'.err = NoError
             /\ Version_gt(res'.v, res.v) = "True"]_vars

\* The regular files under the package root after the last call.
FilesAfter == { n \in DOMAIN AfterEntries : AfterEntries[n].kind = "file" }

\* The file accesses of the walk of the last call made once more, on the
\* tree the call left.
SecondPass ==
    walk_io(fs, res.path, walked(fs, res.path), res.args.package, res.existing, res.v)

=============================================================================
